---- MODULE Spec2Model ----
(***************************************************************************)
(* A model of the two fragments of the repository:                         *)
(*   - girder.models.CollectionModel.fetch (the Backbone model binding),   *)
(*   - the provisioning playbook with the tasks of the girder role.        *)
(* Spec is the state machine of one CollectionModel instance;              *)
(* PlaybookSpec is the state machine of playbook runs against one host.    *)
(***************************************************************************)
EXTENDS Integers, Sequences, FiniteSets, TLC

\* ------------------------------------------------------------------------
\* Bounds of the model
\* ------------------------------------------------------------------------

\* fetch() invocations on the model instance
MaxFetches == 2

\* attribute names and values of the collection resource
Keys == {"_id", "name"}
Vals == {"c1", "c2"}

\* textStatus values jQuery hands to a failure callback
ErrKinds == {"error", "timeout", "abort"}

\* every attribute hash over Keys (a partial map from names to values)
Objects == UNION {[D -> Vals] : D \in SUBSET Keys}

EmptyObject == [k \in {} |-> "c1"]

\* ------------------------------------------------------------------------
\* State
\* ------------------------------------------------------------------------

VARIABLES
    attributes,   \* Backbone.Model attributes of the instance
    requests,     \* the network requests issued through girder.restRequest
    signals,      \* the g:* events triggered on the instance, in order
    calls,        \* history: the attributes at each fetch() invocation
    completions,  \* history: the successfully completed requests, in order
    initial,      \* history: the attributes at construction
    last,         \* history: the last operation and the attributes before it
    host,         \* the provisioned machine and the service running on it
    status,       \* "idle" | "running" | "ok" | "failed" of the current run
    pending,      \* the steps of the current run still to execute
    notified,     \* handlers notified and not yet flushed
    log,          \* the steps the current run has executed so far
    start,        \* the host when the current run started
    prev,         \* the previous run: its result, and whether a step of it changed the host
    cacheReports  \* whether this apt version reports a cache refresh as changed

fvars == <<attributes, requests, signals, calls, completions, initial, last>>
pvars == <<host, status, pending, notified, log, start, prev, cacheReports>>
vars == <<attributes, requests, signals, calls, completions, initial, last,
          host, status, pending, notified, log, start, prev, cacheReports>>

\* ------------------------------------------------------------------------
\* CollectionModel
\* ------------------------------------------------------------------------

\* 'collection/' + this.get('_id'): an absent attribute reads as undefined,
\* which string concatenation renders as "undefined"
RestPathNoId(attrs) ==
    "collection/"

RestPath(attrs) ==
    "collection/" \o (IF "_id" \in DOMAIN attrs THEN attrs["_id"] ELSE "undefined")

\* fetch issues its request through one girder.restRequest call
FetchRequests(attrs, call) ==
    << [call |-> call, path |-> RestPath(attrs), status |-> "pending",
        resp |-> EmptyObject] >>

\* Backbone.Model.set(hash): every attribute of the hash is written, the
\* other attributes of the model are kept
BackboneSetReplace(attrs, resp) ==
    resp

BackboneSetDefaults(attrs, resp) ==
    [k \in DOMAIN attrs \cup DOMAIN resp |->
        IF k \in DOMAIN attrs THEN attrs[k] ELSE resp[k]]

BackboneSet(attrs, resp) ==
    [k \in DOMAIN attrs \cup DOMAIN resp |->
        IF k \in DOMAIN resp THEN resp[k] ELSE attrs[k]]

\* the .done callback: this.set(resp); this.trigger('g:fetched').
\* seen is what a listener of the event reads from the model.
DoneCallbackTriggerFirst(attrs, resp) ==
    [attrs |-> BackboneSet(attrs, resp),
     triggered |-> << [name |-> "g:fetched", args |-> <<>>, seen |-> attrs] >>]

DoneCallback(attrs, resp) ==
    LET a == BackboneSet(attrs, resp)
    IN  [attrs |-> a,
         triggered |-> << [name |-> "g:fetched", args |-> <<>>, seen |-> a] >>]

\* the .error callback: this.trigger('g:error'); the jqXHR arguments are dropped
ErrorCallbackClears(attrs, err) ==
    [attrs |-> EmptyObject,
     triggered |-> << [name |-> "g:error", args |-> <<>>, seen |-> EmptyObject] >>]

ErrorCallbackClassifies(attrs, err) ==
    [attrs |-> attrs,
     triggered |-> << [name |-> "g:error", args |-> <<err>>, seen |-> attrs] >>]

ErrorCallback(attrs, err) ==
    [attrs |-> attrs,
     triggered |-> << [name |-> "g:error", args |-> <<>>, seen |-> attrs] >>]

\* the events of one callback, tagged with the request they answer
Tagged(triggered, req) ==
    [n \in 1..Len(triggered) |->
        [name |-> triggered[n].name, args |-> triggered[n].args,
         seen |-> triggered[n].seen, req |-> req]]

FetchInit ==
    /\ attributes \in Objects
    /\ requests = <<>>
    /\ signals = <<>>
    /\ calls = <<>>
    /\ completions = <<>>
    /\ initial = attributes
    /\ last = [op |-> "init", req |-> 0, before |-> attributes]

\* model.fetch()
Fetch ==
    /\ Len(calls) < MaxFetches
    /\ calls' = Append(calls, attributes)
    /\ requests' = requests \o FetchRequests(attributes, Len(calls) + 1)
    /\ last' = [op |-> "fetch", req |-> 0, before |-> attributes]
    /\ UNCHANGED <<attributes, signals, completions, initial>>
    /\ UNCHANGED pvars

\* request i succeeds with body resp: the jqXHR runs the .done callback
Done ==
    \E i \in 1..Len(requests), resp \in Objects :
        /\ requests[i].status = "pending"
        /\ LET out == DoneCallback(attributes, resp)
           IN  /\ attributes' = out.attrs
               /\ signals' = signals \o Tagged(out.triggered, i)
        /\ requests' = [requests EXCEPT ![i].status = "done", ![i].resp = resp]
        /\ completions' = Append(completions, i)
        /\ last' = [op |-> "done", req |-> i, before |-> attributes]
        /\ UNCHANGED <<calls, initial>>
        /\ UNCHANGED pvars

\* request i fails: the jqXHR runs the .error callback
Error ==
    \E i \in 1..Len(requests), err \in ErrKinds :
        /\ requests[i].status = "pending"
        /\ LET out == ErrorCallback(attributes, err)
           IN  /\ attributes' = out.attrs
               /\ signals' = signals \o Tagged(out.triggered, i)
        /\ requests' = [requests EXCEPT ![i].status = "failed"]
        /\ last' = [op |-> "error", req |-> i, before |-> attributes]
        /\ UNCHANGED <<calls, completions, initial>>
        /\ UNCHANGED pvars

\* ------------------------------------------------------------------------
\* Playbook
\* ------------------------------------------------------------------------

\* with_items of "Install Girder system dependencies"
Packages ==
    << "git", "libffi-dev", "build-essential", "python2.7-dev", "python-pip",
       "libjpeg-dev", "libssl-dev", "zlib1g-dev" >>

Range(s) == {s[n] : n \in 1..Len(s)}

\* the packages a loop over the first n items has installed
FirstPackages(n) == {Packages[m] : m \in 1..n}

\* "{{ girder_version }}", the ref the checkout is pinned to
GirderVersion == "girder_version"

\* the user of "Create admin user", and the credentials of the later calls
AdminUser == [login |-> "girder", password |-> "girder"]

Flush == "flush handlers"

PreTasks == << "Update package cache" >>

\* the tasks of the girder role
GirderRoleTasks == << "Install Girder system dependencies", "Download Girder" >>

RolesSwapped == GirderRoleTasks \o << "Stouts.mongodb" >>

Roles == << "Stouts.mongodb" >> \o GirderRoleTasks

PostTasksAssetstoreFirst ==
    << "Install girder-client", "Setup filesystem assetstore",
       "Create admin user", "Enable gravatar plugin" >>

PostTasks ==
    << "Install girder-client", "Create admin user",
       "Setup filesystem assetstore", "Enable gravatar plugin" >>

\* the play: pre_tasks, roles, post_tasks, notified handlers run after each
Playbook == PreTasks \o <<Flush>> \o Roles \o <<Flush>> \o PostTasks \o <<Flush>>

\* notify: of a task
Notifies(task) ==
    IF task = "Download Girder" THEN {"Build Girder (web)"} ELSE {}

\* the steps left once the handlers due at the head of the list are resolved:
\* a flush point runs the notified handlers, or nothing
RECURSIVE Schedule(_, _)
Schedule(steps, notes) ==
    IF steps = <<>> THEN <<>>
    ELSE IF Head(steps) # Flush THEN steps
    ELSE IF "Build Girder (web)" \in notes
         THEN << "Build Girder (web)" >> \o Schedule(Tail(steps), {})
         ELSE Schedule(Tail(steps), notes)

Authenticated(h) == AdminUser \in h.users

\* whether the step can succeed on host h: a user is created unless the login
\* is taken by another account; username/password calls need that account
CanSucceed(task, h) ==
    CASE task = "Create admin user" ->
            \A u \in h.users : u.login = AdminUser.login => u = AdminUser
      [] task \in {"Setup filesystem assetstore", "Enable gravatar plugin"} ->
            Authenticated(h)
      [] OTHER -> TRUE

\* the host after the step succeeded
Apply(task, h) ==
    CASE task = "Update package cache" -> [h EXCEPT !.cache = TRUE]
      [] task = "Stouts.mongodb" -> [h EXCEPT !.mongodb = TRUE]
      [] task = "Install Girder system dependencies" ->
            [h EXCEPT !.pkgs = h.pkgs \cup Range(Packages)]
      [] task = "Download Girder" ->
            \* update: no and force: no: an existing checkout is left alone
            IF h.checkout = "none" THEN [h EXCEPT !.checkout = GirderVersion] ELSE h
      [] task = "Build Girder (web)" -> [h EXCEPT !.webBuilt = TRUE]
      [] task = "Install girder-client" -> [h EXCEPT !.client = TRUE]
      [] task = "Create admin user" -> [h EXCEPT !.users = h.users \cup {AdminUser}]
      [] task = "Setup filesystem assetstore" ->
            [h EXCEPT !.assetstores = h.assetstores \cup {"Primary assetstore"}]
      [] task = "Enable gravatar plugin" ->
            [h EXCEPT !.plugins = h.plugins \cup {"gravatar"}]
      [] OTHER -> h

\* whether the step carried out an operation on the host: apt-get update and
\* a handler run whenever they are reached, a state: present task only when
\* the state is absent
Acts(task, h) ==
    IF task \in {"Update package cache", "Build Girder (web)"}
    THEN TRUE
    ELSE Apply(task, h) # h

\* whether the step reports "changed"
ChangedAlways(task, h) ==
    TRUE

Changed(task, h) ==
    IF task = "Update package cache" THEN cacheReports ELSE Acts(task, h)

\* the hosts a failing step can leave behind: a loop over items stops with
\* the items before the failing one installed, any other step with nothing done
Partial(task, h) ==
    IF task = "Install Girder system dependencies"
    THEN {[h EXCEPT !.pkgs = h.pkgs \cup FirstPackages(n)] : n \in 0..(Len(Packages) - 1)}
    ELSE {h}

\* ignore_errors: no task of the play or of the role sets it
IgnoreErrorsOnPackages(task) ==
    task = "Install Girder system dependencies"

IgnoreErrors(task) ==
    FALSE

\* the run after a step: the first failed step ends it
AfterStep(task, ok, rest) ==
    IF ~ok /\ ~IgnoreErrors(task) THEN "failed"
    ELSE IF rest = <<>> THEN "ok" ELSE "running"

Hosts ==
    [cache : BOOLEAN,
     mongodb : BOOLEAN,
     pkgs : {FirstPackages(n) : n \in {0, 1, Len(Packages)}},
     checkout : {"none", GirderVersion, "other"},
     webBuilt : BOOLEAN,
     client : BOOLEAN,
     users : {{}, {AdminUser}, {[login |-> "girder", password |-> "other"]}},
     assetstores : {{}, {"Primary assetstore"}},
     plugins : {{}, {"gravatar"}, {"jobs"}}]

PlayInit ==
    /\ host \in Hosts
    /\ cacheReports \in BOOLEAN
    /\ status = "idle"
    /\ pending = <<>>
    /\ notified = {}
    /\ log = <<>>
    /\ start = host
    /\ prev = [result |-> "none", changed |-> FALSE]

\* ansible-playbook is started on the host
StartRun ==
    /\ status # "running"
    /\ prev' = [result |-> IF status = "idle" THEN "none" ELSE status,
                 changed |-> host # start]
    /\ start' = host
    /\ log' = <<>>
    /\ notified' = {}
    /\ pending' = Schedule(Playbook, {})
    /\ status' = "running"
    /\ UNCHANGED <<host, cacheReports>>
    /\ UNCHANGED fvars

\* the next step of the run succeeds
StepOk ==
    /\ status = "running"
    /\ pending # <<>>
    /\ LET task == Head(pending)
           notes == IF Changed(task, host)
                    THEN (notified \cup Notifies(task)) \ {task}
                    ELSE notified \ {task}
           rest == Schedule(Tail(pending), notes)
       IN  /\ CanSucceed(task, host)
           /\ host' = Apply(task, host)
           /\ log' = Append(log, [step |-> task, ok |-> TRUE,
                                  changed |-> Changed(task, host),
                                  acted |-> Acts(task, host),
                                  authenticated |-> Authenticated(host)])
           /\ notified' = IF rest = <<>> THEN {} ELSE notes
           /\ pending' = rest
           /\ status' = AfterStep(task, TRUE, rest)
    /\ UNCHANGED <<start, prev, cacheReports>>
    /\ UNCHANGED fvars

\* the next step of the run fails
StepFails ==
    /\ status = "running"
    /\ pending # <<>>
    /\ LET task == Head(pending)
           rest == Schedule(Tail(pending), notified \ {task})
       IN  /\ \E h \in Partial(task, host) :
                /\ host' = h
                /\ log' = Append(log, [step |-> task, ok |-> FALSE,
                                       changed |-> FALSE,
                                       acted |-> h # host,
                                       authenticated |-> Authenticated(host)])
           /\ notified' = IF rest = <<>> THEN {} ELSE notified \ {task}
           /\ pending' = rest
           /\ status' = AfterStep(task, FALSE, rest)
    /\ UNCHANGED <<start, prev, cacheReports>>
    /\ UNCHANGED fvars

\* ------------------------------------------------------------------------
\* Specifications
\* ------------------------------------------------------------------------

PlayIdle ==
    /\ host = [cache |-> FALSE, mongodb |-> FALSE, pkgs |-> {}, checkout |-> "none",
               webBuilt |-> FALSE, client |-> FALSE, users |-> {},
               assetstores |-> {}, plugins |-> {}]
    /\ cacheReports = FALSE
    /\ status = "idle"
    /\ pending = <<>>
    /\ notified = {}
    /\ log = <<>>
    /\ start = host
    /\ prev = [result |-> "none", changed |-> FALSE]

FetchIdle ==
    /\ attributes = EmptyObject
    /\ requests = <<>>
    /\ signals = <<>>
    /\ calls = <<>>
    /\ completions = <<>>
    /\ initial = attributes
    /\ last = [op |-> "init", req |-> 0, before |-> attributes]

Init == FetchInit /\ PlayIdle

Next == Fetch \/ Done \/ Error

Spec == Init /\ [][Next]_vars

PlaybookInit == PlayInit /\ FetchIdle

PlaybookNext == StartRun \/ StepOk \/ StepFails

PlaybookSpec == PlaybookInit /\ [][PlaybookNext]_vars

\* ------------------------------------------------------------------------
\* Properties of CollectionModel.fetch (checked under Spec)
\* ------------------------------------------------------------------------

LastResponse == requests[last.req].resp

FetchedEmittedLast ==
    /\ signals # <<>>
    /\ signals[Len(signals)].name = "g:fetched"
    /\ signals[Len(signals)].req = last.req

\* C1, as stated: after a successful fetch with response body R the model's
\* state is exactly R (nothing held before the fetch and absent from R
\* remains) and g:fetched has been emitted.
C1_StateIsExactlyResponse ==
    last.op = "done" =>
        /\ attributes = LastResponse
        /\ FetchedEmittedLast

\* C1, amended: after a successful fetch with response body R every attribute
\* of R holds R's value, every attribute absent from R keeps the value it had
\* before the completion, the model has no other attribute, and g:fetched has
\* been emitted for that request.
C1_ResponseMergedIntoState ==
    last.op = "done" =>
        /\ DOMAIN attributes = DOMAIN last.before \cup DOMAIN LastResponse
        /\ \A k \in DOMAIN LastResponse : attributes[k] = LastResponse[k]
        /\ \A k \in DOMAIN last.before \ DOMAIN LastResponse :
               attributes[k] = last.before[k]
        /\ FetchedEmittedLast

\* a fetch completed with a response that lacks an attribute the model held
\* and changes another one
C1_Witness ==
    /\ last.op = "done"
    /\ DOMAIN last.before \ DOMAIN LastResponse # {}
    /\ \E k \in DOMAIN last.before \cap DOMAIN LastResponse :
           last.before[k] # LastResponse[k]

\* C2: when a fetch request fails, every attribute keeps the value it had
\* before the failure, g:error is emitted, and no g:fetched is emitted for
\* that request.
C2_FailedFetchLeavesState ==
    last.op = "error" =>
        /\ attributes = last.before
        /\ signals # <<>>
        /\ signals[Len(signals)].name = "g:error"
        /\ signals[Len(signals)].req = last.req
        /\ \A n \in 1..Len(signals) :
               signals[n].req = last.req => signals[n].name # "g:fetched"

\* a fetch failed on a model that an earlier fetch had populated
C2_Witness ==
    /\ last.op = "error"
    /\ completions # <<>>
    /\ attributes # EmptyObject

\* C4: each fetch() invocation issues exactly one request, to 'collection/'
\* followed by the _id the model had at the invocation ('collection/undefined'
\* when it had none), and no outcome of a request issues another one.
C4_OneRequestPerFetch ==
    /\ Len(requests) = Len(calls)
    /\ \A c \in 1..Len(calls) :
          /\ Cardinality({i \in 1..Len(requests) : requests[i].call = c}) = 1
          /\ \A i \in 1..Len(requests) :
                requests[i].call = c =>
                    requests[i].path =
                        IF "_id" \in DOMAIN calls[c]
                        THEN "collection/" \o calls[c]["_id"]
                        ELSE "collection/undefined"

\* one request failed, and a response has changed the _id since the model
\* was fetched with another one
C4_Witness ==
    /\ \E i \in 1..Len(requests) : requests[i].status = "failed"
    /\ \E c \in 1..Len(calls) :
          /\ "_id" \in DOMAIN calls[c]
          /\ "_id" \in DOMAIN attributes
          /\ calls[c]["_id"] # attributes["_id"]

\* C5, as stated: after any interleaving of fetches and completions the state
\* equals the response of the most recently completed successful fetch.
C5_StateIsLastResponse ==
    completions # <<>> =>
        attributes = requests[completions[Len(completions)]].resp

\* the position in completions of the last successful response that carries
\* attribute k, 0 when none does
LastWriter(k) ==
    LET W == {n \in 1..Len(completions) : k \in DOMAIN requests[completions[n]].resp}
    IN  IF W = {} THEN 0 ELSE CHOOSE n \in W : \A m \in W : m <= n

\* C5, amended: after any interleaving of fetches and completions each
\* attribute holds the value of the most recently completed successful
\* response that carries it; an attribute no response carried is as it was
\* at construction.
C5_AttributesMirrorLastCarrier ==
    \A k \in Keys :
        LET n == LastWriter(k)
        IN  IF n = 0
            THEN /\ k \in DOMAIN attributes <=> k \in DOMAIN initial
                 /\ k \in DOMAIN initial => attributes[k] = initial[k]
            ELSE /\ k \in DOMAIN attributes
                 /\ attributes[k] = requests[completions[n]].resp[k]

\* two fetches were outstanding at once and completed in the reverse order,
\* the later response lacking an attribute the earlier one carried
C5_Witness ==
    /\ completions = <<2, 1>>
    /\ DOMAIN requests[2].resp \ DOMAIN requests[1].resp # {}
    /\ DOMAIN requests[1].resp # {}

\* C8: a completed request has emitted exactly one signal, g:fetched if it
\* succeeded and g:error if it failed; a request that has not completed has
\* emitted none; g:error carries no argument.
C8_OneSignalPerCompletion ==
    /\ \A n \in 1..Len(signals) : signals[n].req \in 1..Len(requests)
    /\ \A i \in 1..Len(requests) :
          LET S == {n \in 1..Len(signals) : signals[n].req = i}
          IN  CASE requests[i].status = "pending" -> S = {}
                [] requests[i].status = "done" ->
                      /\ Cardinality(S) = 1
                      /\ \A n \in S : signals[n].name = "g:fetched"
                [] requests[i].status = "failed" ->
                      /\ Cardinality(S) = 1
                      /\ \A n \in S : /\ signals[n].name = "g:error"
                                      /\ signals[n].args = <<>>

\* one request succeeded, one failed
C8_Witness ==
    /\ \E i \in 1..Len(requests) : requests[i].status = "done"
    /\ \E i \in 1..Len(requests) : requests[i].status = "failed"

\* C9: when g:fetched is emitted the model already holds every attribute of
\* the response.
C9_SetPrecedesFetched ==
    \A n \in 1..Len(signals) :
        signals[n].name = "g:fetched" =>
            \A k \in DOMAIN requests[signals[n].req].resp :
                /\ k \in DOMAIN signals[n].seen
                /\ signals[n].seen[k] = requests[signals[n].req].resp[k]

\* g:fetched was emitted for a response that changed an attribute
C9_Witness ==
    /\ last.op = "done"
    /\ FetchedEmittedLast
    /\ \E k \in DOMAIN last.before \cap DOMAIN LastResponse :
           last.before[k] # LastResponse[k]

\* ------------------------------------------------------------------------
\* Properties of the playbook (checked under PlaybookSpec)
\* ------------------------------------------------------------------------

\* C3, as stated: in a run that follows a successful run the host stays as
\* the first run left it and no step reports a change.
C3_SecondRunReportsNoChange ==
    prev.result = "ok" =>
        /\ host = start
        /\ \A n \in 1..Len(log) : ~log[n].changed

\* C3, amended: in a run that follows a successful run the host stays as the
\* first run left it and no step other than "Update package cache" modifies
\* the host or reports a change.
C3_SecondRunOnlyRefreshesCache ==
    prev.result = "ok" =>
        /\ host = start
        /\ \A n \in 1..Len(log) :
              log[n].step # "Update package cache" =>
                  ~log[n].acted /\ ~log[n].changed

\* a whole second run has succeeded after a first run that changed the host
C3_Witness ==
    /\ prev.result = "ok"
    /\ prev.changed
    /\ status = "ok"
    /\ Len(log) = Len(PreTasks) + Len(Roles) + Len(PostTasks)

\* what a completed step has put in place
Ensured(task) ==
    CASE task = "Update package cache" -> host.cache
      [] task = "Stouts.mongodb" -> host.mongodb
      [] task = "Install Girder system dependencies" ->
            \A n \in 1..Len(Packages) : Packages[n] \in host.pkgs
      [] task = "Download Girder" -> host.checkout # "none"
      [] task = "Build Girder (web)" -> host.webBuilt
      [] task = "Install girder-client" -> host.client
      [] task = "Create admin user" ->
            [login |-> "girder", password |-> "girder"] \in host.users
      [] task = "Setup filesystem assetstore" ->
            "Primary assetstore" \in host.assetstores
      [] task = "Enable gravatar plugin" -> "gravatar" \in host.plugins
      [] OTHER -> FALSE

\* C6: a failed step is the last step of its run and the run has failed; a
\* failed run ends with its one failed step, and what the steps completed
\* before it put in place is still in place.
C6_FailStop ==
    /\ \A n \in 1..Len(log) :
          ~log[n].ok => n = Len(log) /\ status = "failed"
    /\ status = "failed" =>
          /\ log # <<>>
          /\ ~log[Len(log)].ok
          /\ \A n \in 1..(Len(log) - 1) : log[n].ok /\ Ensured(log[n].step)

\* a run failed after two steps that changed the host
C6_Witness ==
    /\ status = "failed"
    /\ Cardinality({n \in 1..Len(log) : log[n].ok /\ log[n].acted /\ log[n].changed}) >= 2
    /\ pending # <<>>

\* the order of the provisioning steps
ProvisioningOrder ==
    << "Update package cache",
       "Stouts.mongodb",
       "Install Girder system dependencies",
       "Download Girder",
       "Install girder-client",
       "Create admin user",
       "Setup filesystem assetstore",
       "Enable gravatar plugin" >>

IsTask(entry) == entry.step # "Build Girder (web)"

\* C7: the tasks a run has executed are, in order, the first tasks of
\* package cache update, database role, OS packages, source checkout,
\* girder-client, admin user, assetstore, gravatar plugin (the notified
\* build handler runs between the checkout and girder-client); every step
\* before the last executed one has succeeded; after a successful run all
\* eight have run and the admin user, the 'Primary assetstore' and the
\* gravatar plugin are present.
C7_LinearOrder ==
    LET tasks == SelectSeq(log, IsTask)
    IN  /\ Len(tasks) <= Len(ProvisioningOrder)
        /\ \A n \in 1..Len(tasks) : tasks[n].step = ProvisioningOrder[n]
        /\ \A n \in 1..(Len(log) - 1) : log[n].ok
        /\ \A n \in 1..Len(log) :
              ~IsTask(log[n]) =>
                  /\ n > 1
                  /\ log[n - 1].step = "Download Girder"
        /\ status = "ok" =>
              /\ Len(tasks) = Len(ProvisioningOrder)
              /\ [login |-> "girder", password |-> "girder"] \in host.users
              /\ "Primary assetstore" \in host.assetstores
              /\ "gravatar" \in host.plugins

\* a run succeeded on a host that had none of the three at its start
C7_Witness ==
    /\ status = "ok"
    /\ start.users = {}
    /\ start.assetstores = {}
    /\ start.plugins = {}
    /\ start.checkout = "none"

AuthenticatedCalls == {"Setup filesystem assetstore", "Enable gravatar plugin"}

\* C10: whenever the assetstore step or the plugin step is reached, the user
\* girder/girder exists and "Create admin user" has succeeded earlier in the
\* same run.
C10_AdminBeforeAuthenticatedCalls ==
    \A n \in 1..Len(log) :
        log[n].step \in AuthenticatedCalls =>
            /\ log[n].authenticated
            /\ \E m \in 1..(n - 1) :
                  log[m].step = "Create admin user" /\ log[m].ok

\* both authenticated calls have run in a run that had to create the user
C10_Witness ==
    /\ start.users = {}
    /\ \E n \in 1..Len(log) : log[n].step = "Setup filesystem assetstore"
    /\ \E n \in 1..Len(log) : log[n].step = "Enable gravatar plugin" /\ log[n].ok

====
